---- MODULE Spec2Model ----
(***************************************************************************)
(* A model of server.py, a JSON-RPC 2.0 server over line-delimited         *)
(* stdin/stdout.  The state is the transport (the lines still to be read,  *)
(* the lines written, the position of the main loop); handle_request and   *)
(* the three arithmetic methods are operators computed as the Python code  *)
(* computes them, exceptions included.                                     *)
(***************************************************************************)
EXTENDS Integers, Sequences, FiniteSets, TLC

VARIABLES stdin,      \* the input lines not read yet
          stdout,     \* the lines printed so far
          consumed,   \* the input lines read so far, in order
          pc,         \* "running", "exited" (end of input) or "crashed"
          stage,      \* how far the try block of the last handle_request got
          traceback   \* the type of the exception that ended the process

vars == <<stdin, stdout, consumed, pc, stage, traceback>>

(***************************************************************************)
(* Bounds of the model.                                                    *)
(***************************************************************************)
MaxNum == 2        \* JSON numbers range over -MaxNum .. MaxNum
MaxLen == 2        \* params arrays have at most MaxLen elements
MaxLines == 4      \* a multi-line input has at most MaxLines lines

(***************************************************************************)
(* The error codes of the program.                                         *)
(***************************************************************************)
InvalidRequest == -32600
MethodNotFound == -32601
InvalidParams == -32602
ParseError == -32700

(***************************************************************************)
(* JSON text.  A line is either text that no JSON decoder accepts, or a    *)
(* document: the text of one JSON value, given by its syntax tree.  NaN is *)
(* the literal NaN, which RFC 8259 does not allow and Python's json        *)
(* module reads and writes by default.                                     *)
(***************************************************************************)
JNull == <<"null">>
JTrue == <<"true">>
JFalse == <<"false">>
JNaN == <<"NaN">>
JNum(n) == <<"number", n>>
JStr(s) == <<"string", s>>
JArr(items) == <<"array", items>>
JObj(members) == <<"object", members>>

Malformed(s) == <<"malformed", s>>
Document(j) == <<"document", j>>

(***************************************************************************)
(* Python values, tagged with their Python type.                           *)
(***************************************************************************)
None == <<"NoneType">>
PyNaN == <<"float", "nan">>
PyBool(b) == <<"bool", b>>
PyInt(n) == <<"int", n>>
PyStr(s) == <<"str", s>>
PyList(items) == <<"list", items>>
PyDict(d) == <<"dict", d>>

TypeOf(v) == v[1]

(***************************************************************************)
(* The outcome of evaluating Python code: a value, or a raised exception.  *)
(***************************************************************************)
Return(v) == [kind |-> "return", val |-> v]
Raise(e) == [kind |-> "raise", exc |-> e]
Raised(r) == r.kind = "raise"
BuiltinError(t) == [type |-> t]

get_message(code) ==
    IF code = InvalidRequest THEN "Invalid Request"
    ELSE IF code = MethodNotFound THEN "Method not found"
    ELSE IF code = InvalidParams THEN "Invalid parameters"
    ELSE IF code = ParseError THEN "Parse error"
    ELSE "Internal error"

RPCError(code, id) ==
    [type |-> "RPCError", code |-> code, message |-> get_message(code), id |-> id]

(***************************************************************************)
(* json.loads and json.dumps, by the conversion table of the json module:  *)
(* null <-> None, true/false <-> bool, number <-> int, NaN <-> float nan,  *)
(* string <-> str, array <-> list, object <-> dict.                        *)
(***************************************************************************)
RECURSIVE Decode(_)
Decode(j) ==
    CASE j[1] = "null" -> None
      [] j[1] = "true" -> PyBool(TRUE)
      [] j[1] = "false" -> PyBool(FALSE)
      [] j[1] = "NaN" -> PyNaN
      [] j[1] = "number" -> PyInt(j[2])
      [] j[1] = "string" -> PyStr(j[2])
      [] j[1] = "array" -> PyList([i \in 1..Len(j[2]) |-> Decode(j[2][i])])
      [] j[1] = "object" -> PyDict([k \in DOMAIN j[2] |-> Decode(j[2][k])])

RECURSIVE Encode(_)
Encode(v) ==
    CASE v[1] = "NoneType" -> JNull
      [] v[1] = "bool" -> IF v[2] THEN JTrue ELSE JFalse
      [] v[1] = "float" -> JNaN
      [] v[1] = "int" -> JNum(v[2])
      [] v[1] = "str" -> JStr(v[2])
      [] v[1] = "list" -> JArr([i \in 1..Len(v[2]) |-> Encode(v[2][i])])
      [] v[1] = "dict" -> JObj([k \in DOMAIN v[2] |-> Encode(v[2][k])])

json_loads(text) ==
    IF text[1] = "malformed"
    THEN Raise(BuiltinError("JSONDecodeError"))
    ELSE Return(Decode(text[2]))

json_dumps(v) == Document(Encode(v))

(***************************************************************************)
(* The Python operators the program applies to decoded values.             *)
(***************************************************************************)
IsInt(v) == TypeOf(v) \in {"int", "bool"}          \* bool is a subclass of int
IsNumeric(v) == TypeOf(v) \in {"int", "bool", "float"}
IntOf(v) == IF TypeOf(v) = "bool" THEN (IF v[2] THEN 1 ELSE 0) ELSE v[2]

\* a + b
py_add(a, b) ==
    IF IsInt(a) /\ IsInt(b) THEN Return(PyInt(IntOf(a) + IntOf(b)))
    ELSE IF IsNumeric(a) /\ IsNumeric(b) THEN Return(PyNaN)
    ELSE IF TypeOf(a) = "str" /\ TypeOf(b) = "str" THEN Return(PyStr(a[2] \o b[2]))
    ELSE IF TypeOf(a) = "list" /\ TypeOf(b) = "list" THEN Return(PyList(a[2] \o b[2]))
    ELSE Raise(BuiltinError("TypeError"))

\* a - b
py_sub(a, b) ==
    IF IsInt(a) /\ IsInt(b) THEN Return(PyInt(IntOf(a) - IntOf(b)))
    ELSE IF IsNumeric(a) /\ IsNumeric(b) THEN Return(PyNaN)
    ELSE Raise(BuiltinError("TypeError"))

\* items[i] of a list, i counted from 0
py_index(items, i) ==
    IF i + 1 <= Len(items) THEN Return(items[i + 1])
    ELSE Raise(BuiltinError("IndexError"))

\* d[key] of a dict
py_key(d, key) ==
    IF key \in DOMAIN d THEN Return(d[key])
    ELSE Raise(BuiltinError("KeyError"))

\* the builtin sum(items): 0 + items[0] + items[1] + ...
RECURSIVE SumFrom(_, _)
SumFrom(acc, items) ==
    IF items = <<>> THEN Return(acc)
    ELSE LET r == py_add(acc, Head(items))
         IN IF Raised(r) THEN r ELSE SumFrom(r.val, Tail(items))

py_sum(items) == SumFrom(PyInt(0), items)

\* whether string sub occurs in string s
Substring(sub, s) ==
    \E i \in 1..(Len(s) - Len(sub) + 1) : SubSeq(s, i, i + Len(sub) - 1) = sub

\* key in container
py_in(key, container) ==
    CASE TypeOf(container) = "dict" -> Return(key \in DOMAIN container[2])
      [] TypeOf(container) = "str" -> Return(Substring(key, container[2]))
      [] TypeOf(container) = "list" ->
            Return(\E i \in 1..Len(container[2]) : container[2][i] = PyStr(key))
      [] OTHER -> Raise(BuiltinError("TypeError"))

\* container[key] with a str key
py_getitem(container, key) ==
    IF TypeOf(container) = "dict" THEN py_key(container[2], key)
    ELSE Raise(BuiltinError("TypeError"))

\* container.get(key, default)
py_get(container, key, default) ==
    IF TypeOf(container) # "dict" THEN Raise(BuiltinError("AttributeError"))
    ELSE IF key \in DOMAIN container[2] THEN Return(container[2][key])
    ELSE Return(default)

(***************************************************************************)
(* The three methods.  Each except clause catches every exception the try  *)
(* block raises and raises RPCError(-32602) in its place.                  *)
(***************************************************************************)
\* sum_method without its except clause
sum_method_NoExcept(params) ==
    IF TypeOf(params) = "list" THEN py_sum(params[2])
    ELSE Raise(RPCError(InvalidParams, None))

sum_method(params) ==
    LET try == IF TypeOf(params) = "list" THEN py_sum(params[2])
               ELSE Raise(RPCError(InvalidParams, None))
    IN IF Raised(try) THEN Raise(RPCError(InvalidParams, None)) ELSE try

add(params, id) ==
    LET try == IF TypeOf(params) = "list"
               THEN LET x == py_index(params[2], 0)
                        y == py_index(params[2], 1)
                    IN IF Raised(x) THEN x
                       ELSE IF Raised(y) THEN y
                       ELSE py_add(x.val, y.val)
               ELSE Raise(RPCError(InvalidParams, id))
    IN IF Raised(try) THEN Raise(RPCError(InvalidParams, id)) ELSE try

\* subtract with the operands of the list form exchanged
subtract_Swapped(params, id) ==
    LET try == IF TypeOf(params) = "dict"
               THEN LET x == py_key(params[2], "minuend")
                        y == py_key(params[2], "subtrahend")
                    IN IF Raised(x) THEN x
                       ELSE IF Raised(y) THEN y
                       ELSE py_sub(x.val, y.val)
               ELSE IF TypeOf(params) = "list"
               THEN LET x == py_index(params[2], 0)
                        y == py_index(params[2], 1)
                    IN IF Raised(x) THEN x
                       ELSE IF Raised(y) THEN y
                       ELSE py_sub(y.val, x.val)
               ELSE Raise(RPCError(InvalidParams, id))
    IN IF Raised(try) THEN Raise(RPCError(InvalidParams, id)) ELSE try

subtract(params, id) ==
    LET try == IF TypeOf(params) = "dict"
               THEN LET x == py_key(params[2], "minuend")
                        y == py_key(params[2], "subtrahend")
                    IN IF Raised(x) THEN x
                       ELSE IF Raised(y) THEN y
                       ELSE py_sub(x.val, y.val)
               ELSE IF TypeOf(params) = "list"
               THEN LET x == py_index(params[2], 0)
                        y == py_index(params[2], 1)
                    IN IF Raised(x) THEN x
                       ELSE IF Raised(y) THEN y
                       ELSE py_sub(x.val, y.val)
               ELSE Raise(RPCError(InvalidParams, id))
    IN IF Raised(try) THEN Raise(RPCError(InvalidParams, id)) ELSE try

(***************************************************************************)
(* handle_request.  InvalidEnvelope is the condition of its if statement,  *)
(* evaluated left to right as `or` does; Dispatch is the rest of the try   *)
(* block; handle_request adds the two except clauses and json.dumps.  An   *)
(* exception that no except clause names leaves handle_request.            *)
(***************************************************************************)
\* the envelope check without the comparison of the version
InvalidEnvelope_AnyVersion(req) ==
    LET has_jsonrpc == py_in("jsonrpc", req)
        has_method == py_in("method", req)
        has_id == py_in("id", req)
    IN IF Raised(has_jsonrpc) THEN has_jsonrpc
       ELSE IF ~has_jsonrpc.val THEN Return(TRUE)
       ELSE IF Raised(has_method) THEN has_method
       ELSE IF ~has_method.val THEN Return(TRUE)
       ELSE IF Raised(has_id) THEN has_id
       ELSE Return(~has_id.val)

InvalidEnvelope(req) ==
    LET has_jsonrpc == py_in("jsonrpc", req)
        jsonrpc == py_getitem(req, "jsonrpc")
        has_method == py_in("method", req)
        has_id == py_in("id", req)
    IN IF Raised(has_jsonrpc) THEN has_jsonrpc
       ELSE IF ~has_jsonrpc.val THEN Return(TRUE)
       ELSE IF Raised(jsonrpc) THEN jsonrpc
       ELSE IF jsonrpc.val # PyStr("2.0") THEN Return(TRUE)
       ELSE IF Raised(has_method) THEN has_method
       ELSE IF ~has_method.val THEN Return(TRUE)
       ELSE IF Raised(has_id) THEN has_id
       ELSE Return(~has_id.val)

\* the else branch: response["error"] is set, nothing is raised
\* (first as it would be with response["result"] preset to None, then as it
\* would be raising RPCError(-32601) the way the methods raise)
NotFound_ResultPreset(req_id) ==
    Return(PyDict([jsonrpc |-> PyStr("2.0"), id |-> req_id, result |-> None,
                   error |-> PyDict([code |-> PyInt(MethodNotFound),
                                     message |-> PyStr("Method not found")])]))

NotFound_Raises(req_id) == Raise(RPCError(MethodNotFound, None))

NotFound(req_id) ==
    Return(PyDict([jsonrpc |-> PyStr("2.0"), id |-> req_id,
                   error |-> PyDict([code |-> PyInt(MethodNotFound),
                                     message |-> PyStr("Method not found")])]))

Dispatch(req) ==
    LET method == py_getitem(req, "method")
        params == py_get(req, "params", PyList(<<>>))
        req_id == py_getitem(req, "id")
        SetResult(r) ==
            IF Raised(r) THEN r
            ELSE Return(PyDict([jsonrpc |-> PyStr("2.0"), id |-> req_id.val,
                                result |-> r.val]))
    IN IF Raised(method) THEN method
       ELSE IF Raised(params) THEN params
       ELSE IF Raised(req_id) THEN req_id
       ELSE IF method.val = PyStr("add") THEN SetResult(add(params.val, None))
       ELSE IF method.val = PyStr("sum") THEN SetResult(sum_method(params.val))
       ELSE IF method.val = PyStr("subtract")
       THEN SetResult(subtract(params.val, req_id.val))
       ELSE NotFound(req_id.val)

handle_request(request) ==
    LET req == json_loads(request)
        try == IF Raised(req) THEN [out |-> req, stage |-> "RECEIVED"]
               ELSE LET invalid == InvalidEnvelope(req.val)
                    IN IF Raised(invalid) THEN [out |-> invalid, stage |-> "DECODED"]
                       ELSE IF invalid.val
                       THEN [out |-> Raise(RPCError(InvalidRequest, None)),
                             stage |-> "DECODED"]
                       ELSE LET response == Dispatch(req.val)
                            IN [out |-> response,
                                stage |-> IF Raised(response) THEN "VALIDATED"
                                          ELSE "DISPATCHED"]
        e == try.out.exc
    IN IF ~Raised(try.out)
       THEN [kind |-> "return", val |-> json_dumps(try.out.val), stage |-> try.stage]
       ELSE IF e.type = "JSONDecodeError"
       THEN [kind |-> "return", stage |-> try.stage,
             val |-> json_dumps(PyDict([jsonrpc |-> PyStr("2.0"),
                                        error |-> PyDict([code |-> PyInt(ParseError),
                                                          message |-> PyStr("Parse error")]),
                                        id |-> None]))]
       ELSE IF e.type = "RPCError"
       THEN [kind |-> "return", stage |-> try.stage,
             val |-> json_dumps(PyDict([jsonrpc |-> PyStr("2.0"),
                                        error |-> PyDict([code |-> PyInt(e.code),
                                                          message |-> PyStr(e.message)]),
                                        id |-> e.id]))]
       ELSE [kind |-> "raise", exc |-> e, stage |-> try.stage]

(***************************************************************************)
(* The input lines of the model.                                           *)
(***************************************************************************)
Absent == <<"absent">>       \* marks a key an object does not carry

Numbers == { JNum(n) : n \in -MaxNum..MaxNum }
Elements == Numbers \cup {JTrue, JNull, JNaN, JStr("a"), JArr(<<JNum(1)>>)}

Arrays ==
    { JArr(s) : s \in UNION { [1..k -> Elements] : k \in 0..MaxLen } }
    \cup { JArr(s) : s \in [1..(MaxLen + 1) -> Numbers] }

ParamObjects ==
    { JObj(m) : m \in UNION { [K -> Elements] : K \in SUBSET {"minuend", "subtrahend"} } }

ParamValues == Arrays \cup ParamObjects \cup {JStr("a"), JNum(1), JNull, JTrue}

Methods == {JStr("add"), JStr("sum"), JStr("subtract"), JStr("divide"), JNum(1)}
Ids == {JNull, JNum(1), JStr("x")}

\* the object with the keys among jsonrpc, method, params, id that are not Absent
MakeObject(jsonrpc, method, params, id) ==
    LET all == [jsonrpc |-> jsonrpc, method |-> method, params |-> params, id |-> id]
        keys == { k \in DOMAIN all : all[k] # Absent }
    IN JObj([k \in keys |-> all[k]])

\* structurally valid requests, with every params value
ValidRequests ==
    { MakeObject(JStr("2.0"), m, p, i) :
        m \in Methods, p \in ParamValues \cup {Absent}, i \in Ids }

\* objects with every shape of envelope
EnvelopeObjects ==
    { MakeObject(j, m, p, i) :
        j \in {Absent, JStr("2.0"), JStr("1.0"), JNum(1)},
        m \in {Absent, JStr("add"), JStr("divide")},
        p \in {Absent, JArr(<<JNum(1), JNum(1)>>), JStr("a")},
        i \in {Absent, JNull, JNum(1)} }

\* JSON values that are not objects
NonObjects ==
    {JNull, JTrue, JFalse, JNaN, JNum(1), JStr("abc"), JStr("jsonrpc"),
     JStr("a jsonrpc method id"), JArr(<<>>), JArr(<<JNum(1)>>),
     JArr(<<JStr("jsonrpc")>>), JArr(<<JStr("jsonrpc"), JStr("method"), JStr("id")>>)}

MalformedLines ==
    { Malformed(s) : s \in {"", " ", "{not json", "{\"jsonrpc\": \"2.0\",", "[1, 2", "nul"} }

Lines ==
    MalformedLines
    \cup { Document(j) : j \in ValidRequests \cup EnvelopeObjects \cup NonObjects }

\* the lines of the multi-line inputs
LoopLines ==
    { Malformed("{not json"),
      Document(JNum(1)),
      Document(MakeObject(JStr("2.0"), JStr("sum"), JStr("a"), JNum(1))),
      Document(MakeObject(JStr("2.0"), JStr("divide"), Absent, JStr("x"))),
      Document(MakeObject(JStr("2.0"), JStr("subtract"), JArr(<<JNum(1), JNum(-1)>>), JNum(1))),
      Document(MakeObject(JStr("2.0"), JStr("subtract"),
                          JObj([minuend |-> JNum(1), subtrahend |-> JNum(-1)]), JNum(1))) }

Inputs ==
    { <<l>> : l \in Lines } \cup UNION { [1..k -> LoopLines] : k \in 0..MaxLines }

(***************************************************************************)
(* The main loop: for line in sys.stdin, print handle_request(line).       *)
(***************************************************************************)
Init ==
    /\ stdin \in Inputs
    /\ stdout = <<>>
    /\ consumed = <<>>
    /\ pc = "running"
    /\ stage = "NONE"
    /\ traceback = "none"

\* one iteration of the loop; an exception leaving handle_request ends the process
main_iteration ==
    /\ pc = "running"
    /\ stdin # <<>>
    /\ LET line == Head(stdin)
           response == handle_request(line)
       IN /\ stdin' = Tail(stdin)
          /\ consumed' = Append(consumed, line)
          /\ stage' = response.stage
          /\ IF response.kind = "return"
             THEN /\ stdout' = Append(stdout, response.val)
                  /\ UNCHANGED <<pc, traceback>>
             ELSE /\ pc' = "crashed"
                  /\ traceback' = response.exc.type
                  /\ UNCHANGED stdout

\* the iterator over sys.stdin is exhausted: main returns
main_exit ==
    /\ pc = "running"
    /\ stdin = <<>>
    /\ pc' = "exited"
    /\ UNCHANGED <<stdin, stdout, consumed, stage, traceback>>

Next == main_iteration \/ main_exit

Spec == Init /\ [][Next]_vars

(***************************************************************************)
(* The vocabulary of the properties: the i-th line read and the i-th line  *)
(* written, both as JSON text.  The loop prints nothing after an exception *)
(* has left handle_request, so the i-th line written answers the i-th line *)
(* read.                                                                   *)
(***************************************************************************)
IsObject(line) == line[1] = "document" /\ line[2][1] = "object"
Members(line) == line[2][2]
Has(line, key) == key \in DOMAIN Members(line)

StructurallyValid(line) ==
    /\ IsObject(line)
    /\ {"jsonrpc", "method", "id"} \subseteq DOMAIN Members(line)
    /\ Members(line)["jsonrpc"] = JStr("2.0")

CallsMethod(line, name) ==
    StructurallyValid(line) /\ Members(line)["method"] = JStr(name)

IsArray(j) == j[1] = "array"
IsNumber(j) == j[1] = "number"

Answered(i) == i <= Len(stdout)
Response(i) == stdout[i][2][2]

IsErrorResponse(i, code, message, id) ==
    /\ Answered(i)
    /\ stdout[i] = Document(JObj([jsonrpc |-> JStr("2.0"), id |-> id,
                                  error |-> JObj([code |-> JNum(code),
                                                  message |-> JStr(message)])]))

IsResultResponse(i, value, id) ==
    /\ Answered(i)
    /\ stdout[i] = Document(JObj([jsonrpc |-> JStr("2.0"), id |-> id, result |-> value]))

RECURSIVE HasNaN(_)
HasNaN(j) ==
    CASE j[1] = "NaN" -> TRUE
      [] j[1] = "array" -> \E k \in 1..Len(j[2]) : HasNaN(j[2][k])
      [] j[1] = "object" -> \E k \in DOMAIN j[2] : HasNaN(j[2][k])
      [] OTHER -> FALSE

\* the line is text that is not well-formed JSON (RFC 8259)
NotWellFormed(line) == line[1] = "malformed" \/ HasNaN(line[2])

(***************************************************************************)
(* C1: for every input string, handle_request returns a response string    *)
(* and no exception escapes it: every line read has been answered and the  *)
(* process has not died of an exception.                                   *)
(***************************************************************************)
C1_HandlerAlwaysEmits ==
    /\ pc # "crashed"
    /\ Len(stdout) = Len(consumed)

(***************************************************************************)
(* C2: every response handle_request returns is an object with jsonrpc     *)
(* "2.0", an id, and exactly one of result and error.                      *)
(***************************************************************************)
C2_ResponseShape ==
    \A i \in 1..Len(stdout) :
        /\ IsObject(stdout[i])
        /\ Has(stdout[i], "jsonrpc")
        /\ Response(i)["jsonrpc"] = JStr("2.0")
        /\ Has(stdout[i], "id")
        /\ Has(stdout[i], "result") # Has(stdout[i], "error")

\* one run has produced a result, a method-not-found error, a parse error and
\* an error raised as RPCError
C2_Witness ==
    /\ \E i \in 1..Len(stdout) : Has(stdout[i], "result")
    /\ \E i \in 1..Len(stdout) :
          IsErrorResponse(i, MethodNotFound, "Method not found", JStr("x"))
    /\ \E i \in 1..Len(stdout) : IsErrorResponse(i, ParseError, "Parse error", JNull)
    /\ \E i \in 1..Len(stdout) :
          IsErrorResponse(i, InvalidParams, "Invalid parameters", JNull)

(***************************************************************************)
(* C3: a structurally valid add request whose params are rejected (absent, *)
(* not an array, or an array of fewer than two elements) is answered with  *)
(* error -32602 and the id of the request.                                 *)
(***************************************************************************)
AddParamsTooFew(line) ==
    \/ ~Has(line, "params")
    \/ ~IsArray(Members(line)["params"])
    \/ Len(Members(line)["params"][2]) < 2

C3_AddErrorEchoesId ==
    \A i \in 1..Len(consumed) :
        CallsMethod(consumed[i], "add") /\ AddParamsTooFew(consumed[i])
        => IsErrorResponse(i, InvalidParams, "Invalid parameters",
                           Members(consumed[i])["id"])

(***************************************************************************)
(* C4: a structurally valid add request gets a result only when params is  *)
(* an array whose first two elements are both numbers; every other params  *)
(* gets error -32602 and no result.                                        *)
(***************************************************************************)
AddParamsTwoNumbers(line) ==
    /\ ~AddParamsTooFew(line)
    /\ IsNumber(Members(line)["params"][2][1])
    /\ IsNumber(Members(line)["params"][2][2])

C4_AddOnlyNumbers ==
    \A i \in 1..Len(consumed) :
        CallsMethod(consumed[i], "add")
        => /\ Answered(i)
           /\ Has(stdout[i], "result") => AddParamsTwoNumbers(consumed[i])
           /\ ~AddParamsTwoNumbers(consumed[i])
              => /\ ~Has(stdout[i], "result")
                 /\ Has(stdout[i], "error")
                 /\ Response(i)["error"][2]["code"] = JNum(InvalidParams)

(***************************************************************************)
(* C5: a structurally valid request whose method is not "add", "sum" or    *)
(* "subtract" is answered, whatever its params, with error -32601 "Method  *)
(* not found", no result, and the id of the request.                       *)
(***************************************************************************)
UnknownMethod(line) ==
    /\ StructurallyValid(line)
    /\ Members(line)["method"] \notin {JStr("add"), JStr("sum"), JStr("subtract")}

C5_MethodNotFound ==
    \A i \in 1..Len(consumed) :
        UnknownMethod(consumed[i])
        => IsErrorResponse(i, MethodNotFound, "Method not found",
                           Members(consumed[i])["id"])

C5_Witness ==
    \E i \in 1..Len(consumed) :
        /\ UnknownMethod(consumed[i])
        /\ Has(consumed[i], "params")
        /\ Members(consumed[i])["id"] # JNull
        /\ IsErrorResponse(i, MethodNotFound, "Method not found",
                           Members(consumed[i])["id"])

(***************************************************************************)
(* C6: a JSON object that lacks method, id or jsonrpc, or whose jsonrpc is *)
(* not the string "2.0", is answered with error -32600 "Invalid Request"   *)
(* and id null, whatever else it carries, and is not dispatched.           *)
(***************************************************************************)
BadEnvelope(line) == IsObject(line) /\ ~StructurallyValid(line)

C6_InvalidRequest ==
    \A i \in 1..Len(consumed) :
        BadEnvelope(consumed[i])
        => /\ IsErrorResponse(i, InvalidRequest, "Invalid Request", JNull)
           /\ i = Len(consumed) => stage = "DECODED"

\* the wrong version, with an id, a registered method and valid params
C6_Witness ==
    \E i \in 1..Len(consumed) :
        /\ IsObject(consumed[i])
        /\ DOMAIN Members(consumed[i]) = {"jsonrpc", "method", "params", "id"}
        /\ Members(consumed[i])["jsonrpc"] = JStr("1.0")
        /\ Members(consumed[i])["method"] = JStr("add")
        /\ Members(consumed[i])["params"] = JArr(<<JNum(1), JNum(1)>>)
        /\ Members(consumed[i])["id"] = JNum(1)
        /\ IsErrorResponse(i, InvalidRequest, "Invalid Request", JNull)

(***************************************************************************)
(* C7: a line that is not well-formed JSON is answered with error -32700   *)
(* "Parse error" and id null, and is neither validated nor dispatched.     *)
(***************************************************************************)
C7_ParseError ==
    \A i \in 1..Len(consumed) :
        NotWellFormed(consumed[i])
        => /\ IsErrorResponse(i, ParseError, "Parse error", JNull)
           /\ i = Len(consumed) => stage = "RECEIVED"

(***************************************************************************)
(* C8: for numbers a and b, a valid subtract request with params           *)
(* {"minuend": a, "subtrahend": b} and one with params [a, b] get the same *)
(* response: result a - b and the id of the request.                       *)
(***************************************************************************)
SubtractNamed(line) ==
    /\ CallsMethod(line, "subtract")
    /\ Has(line, "params")
    /\ Members(line)["params"][1] = "object"
    /\ DOMAIN Members(line)["params"][2] = {"minuend", "subtrahend"}
    /\ IsNumber(Members(line)["params"][2]["minuend"])
    /\ IsNumber(Members(line)["params"][2]["subtrahend"])

SubtractPositional(line) ==
    /\ CallsMethod(line, "subtract")
    /\ Has(line, "params")
    /\ IsArray(Members(line)["params"])
    /\ Len(Members(line)["params"][2]) = 2
    /\ IsNumber(Members(line)["params"][2][1])
    /\ IsNumber(Members(line)["params"][2][2])

Minuend(line) ==
    IF SubtractNamed(line) THEN Members(line)["params"][2]["minuend"][2]
    ELSE Members(line)["params"][2][1][2]

Subtrahend(line) ==
    IF SubtractNamed(line) THEN Members(line)["params"][2]["subtrahend"][2]
    ELSE Members(line)["params"][2][2][2]

C8_SubtractForms ==
    /\ \A i \in 1..Len(consumed) :
          SubtractNamed(consumed[i]) \/ SubtractPositional(consumed[i])
          => IsResultResponse(i, JNum(Minuend(consumed[i]) - Subtrahend(consumed[i])),
                              Members(consumed[i])["id"])
    /\ \A i, j \in 1..Len(consumed) :
          /\ SubtractNamed(consumed[i])
          /\ SubtractPositional(consumed[j])
          /\ Minuend(consumed[i]) = Minuend(consumed[j])
          /\ Subtrahend(consumed[i]) = Subtrahend(consumed[j])
          /\ Members(consumed[i])["id"] = Members(consumed[j])["id"]
          => Answered(i) /\ Answered(j) /\ stdout[i] = stdout[j]

\* one run has answered both forms of the same subtraction
C8_Witness ==
    \E i, j \in 1..Len(consumed) :
        /\ SubtractNamed(consumed[i])
        /\ SubtractPositional(consumed[j])
        /\ Minuend(consumed[i]) = 1 /\ Minuend(consumed[j]) = 1
        /\ Subtrahend(consumed[i]) = -1 /\ Subtrahend(consumed[j]) = -1
        /\ IsResultResponse(i, JNum(2), JNum(1))
        /\ IsResultResponse(j, JNum(2), JNum(1))

(***************************************************************************)
(* C9: a structurally valid sum request whose params are not an array, or  *)
(* are an array containing a non-number, is answered with error -32602 and *)
(* id null; without params it is answered with result 0 and its own id.    *)
(***************************************************************************)
SumParamsNotNumbers(line) ==
    /\ Has(line, "params")
    /\ \/ ~IsArray(Members(line)["params"])
       \/ \E k \in 1..Len(Members(line)["params"][2]) :
             ~IsNumber(Members(line)["params"][2][k])

SumParamsRejected(line) ==
    /\ Has(line, "params")
    /\ \/ ~IsArray(Members(line)["params"])
       \/ \E k \in 1..Len(Members(line)["params"][2]) :
             Members(line)["params"][2][k][1] \in {"string", "null", "array", "object"}

C10_OneResponsePerLine ==
    /\ Len(stdout) = Len(consumed)
    /\ \A i \in 1..Len(stdout) :
          /\ handle_request(consumed[i]).kind = "return"
          /\ stdout[i] = handle_request(consumed[i]).val
    /\ pc # "running" => stdin = <<>>

====
